---- MODULE Spec2Model ----
(***************************************************************************)
(* A model of teensy-mon.py: the matcher is_teensy, the OutputWriter, the  *)
(* session loop teensy_mon and the two-phase controller in main, together  *)
(* with the environment they talk to (udev hotplug notifications, the      *)
(* serial device, the console).                                            *)
(***************************************************************************)
EXTENDS Integers, Sequences, FiniteSets, TLC

VARIABLES
    criteria,       \* args.serial: None or Some(serial number)
    desc,           \* the udev properties of the device at each path
    permitted,      \* the user may open the tty device nodes
    attached,       \* which device nodes exist
    monitorStarted, \* monitor.start() has been called
    queue,          \* notifications received by the monitor and not yet polled
    pc,             \* the position of the single thread of control
    caller,         \* the loop teensy_mon returns to: "enum_loop" or "wait"
    enumList,       \* the devices of context.list_devices() not yet visited
    port,           \* port_name of the current teensy_mon call
    serialOpen,     \* a serial handle opened by teensy_mon is open
    linkLost,       \* the device behind the open handle has gone away
    events,         \* the events of the current epoll.poll() not yet serviced
    output,         \* the OutputWriter of the current session
    exc,            \* the exception propagating to, or handled by, main
    console,        \* the termios mode of stdin: "orig" or "raw"
    endReason,      \* history: how the most recent teensy_mon call ended
    mIn,            \* the input of the matcher specification
    wIn,            \* the OutputWriter of the writer specification
    hist            \* what a session polled, serviced, read and forwarded

vars == <<criteria, desc, permitted, attached, monitorStarted, queue, pc,
          caller, enumList, port, serialOpen, linkLost, events, output, exc,
          console, endReason, mIn, wIn, hist>>

(***************************************************************************)
(* Bounds                                                                  *)
(***************************************************************************)
MaxQueue == 2
MaxTyped == 1

(***************************************************************************)
(* Optional values: None is the empty sequence, Some(x) the one-element    *)
(* sequence.                                                               *)
(***************************************************************************)
None == <<>>

Some(x) == <<x>>

(***************************************************************************)
(* Colour table (lines 24-38).  An escape sequence is one console unit.    *)
(***************************************************************************)
LT_RED == <<"ESC[1;31m">>

LT_YELLOW == <<"ESC[1;33m">>

LT_BLUE == <<"ESC[1;34m">>

NO_COLOR == <<"ESC[0m">>

COLORS == [W |-> LT_YELLOW, I |-> <<>>, D |-> LT_BLUE, C |-> LT_RED, E |-> LT_RED]

(***************************************************************************)
(* OutputWriter (lines 41-84).  The state is the record of the three       *)
(* fields; out collects what one call of write hands to sys.stdout.        *)
(***************************************************************************)
OutputWriterInit == [buffered_output |-> <<>>, column |-> 0, colored |-> FALSE]

\* string.find('\n'): the 0-based index of the first newline, or -1.
Find(string) ==
    IF \E i \in 1..Len(string) : string[i] = "\n"
    THEN (CHOOSE i \in 1..Len(string) :
              /\ string[i] = "\n"
              /\ \A j \in 1..(i - 1) : string[j] # "\n") - 1
    ELSE -1

\* A writer without the look-ahead of line 62: every string is decided at once.
NeedMore_Never(st, string) == FALSE

\* A look-ahead that waits for a third byte.
NeedMore_Three(st, string) ==
    st.column = 0 /\ Find(string) < 0 /\ Len(string) < 3

\* Line 62: at the start of a line, fewer than two bytes and no newline
\* do not yet decide the colour; they are kept for the next call.
NeedMore(st, string) ==
    st.column = 0 /\ Find(string) < 0 /\ Len(string) < 2

\* The tag test without its column test: a key and a colon anywhere a call
\* happens to start.
Tagged_AnyColumn(st, string) ==
    /\ Len(string) >= 2
    /\ string[2] = ":"
    /\ string[1] \in DOMAIN COLORS

\* Lines 72-73: the string starts a line with a key of COLORS and a colon.
Tagged(st, string) ==
    /\ st.column = 0
    /\ Len(string) >= 2
    /\ string[2] = ":"
    /\ string[1] \in DOMAIN COLORS

\* A flag that describes the current string only.
Colored_PerLine(st, tagged) == tagged

\* Line 75: self.colored once set stays set.
Colored(st, tagged) == st.colored \/ tagged

\* Lines 76-77: the reset escape after a newline once colored is set.
Suffix(nl_index, colored) ==
    IF nl_index >= 0 /\ colored THEN NO_COLOR ELSE <<>>

RECURSIVE WriteLoop(_, _, _)
\* The while loop of write (lines 60-84) on the state st, the remaining string
\* and the units written so far.
WriteLoop(st, string, out) ==
    LET nl_index == Find(string)
    IN  IF NeedMore(st, string)
        THEN [st |-> [st EXCEPT !.buffered_output = string], out |-> out]
        ELSE LET line_string == IF nl_index < 0 THEN string
                                ELSE SubSeq(string, 1, nl_index + 1)
                 tagged == Tagged(st, string)
                 prefix == IF tagged THEN COLORS[string[1]] ELSE <<>>
                 colored == Colored(st, tagged)
                 suffix == Suffix(nl_index, colored)
                 out2 == out \o prefix \o line_string \o suffix
                 col2 == st.column + Len(line_string)
             IN  IF nl_index < 0
                 THEN [st |-> [st EXCEPT !.column = col2, !.colored = colored],
                       out |-> out2]
                 ELSE WriteLoop([st EXCEPT !.column = 0, !.colored = colored],
                                SubSeq(string, nl_index + 2, Len(string)),
                                out2)

\* A write that forgets the byte kept by the previous call.
Write_DropsPending(st, string) ==
    WriteLoop([st EXCEPT !.buffered_output = <<>>], string, <<>>)

\* OutputWriter.write (lines 49-84).
Write(st, string) ==
    IF Len(st.buffered_output) > 0
    THEN WriteLoop([st EXCEPT !.buffered_output = <<>>],
                   st.buffered_output \o string, <<>>)
    ELSE WriteLoop(st, string, <<>>)

(***************************************************************************)
(* is_teensy (lines 87-99).  A device is the function from the udev        *)
(* property names it has to their values; a missing key raises KeyError.   *)
(***************************************************************************)
Teensy == <<"T", "e", "e", "n", "s", "y">>

\* str.startswith
StartsWith(s, prefix) ==
    /\ Len(s) >= Len(prefix)
    /\ SubSeq(s, 1, Len(prefix)) = prefix

Returns(v) == [raised |-> "none", value |-> v]

Raises(e) == [raised |-> e, value |-> FALSE]

\* is_teensy with the serial number comparison of line 99 left out.
is_teensy_AnySerial(device, serial_num) ==
    IF "ID_VENDOR" \notin DOMAIN device THEN Returns(FALSE)
    ELSE IF ~StartsWith(device["ID_VENDOR"], Teensy) THEN Returns(FALSE)
    ELSE Returns(TRUE)

is_teensy(device, serial_num) ==
    IF "ID_VENDOR" \notin DOMAIN device THEN Returns(FALSE)
    ELSE IF ~StartsWith(device["ID_VENDOR"], Teensy) THEN Returns(FALSE)
    ELSE IF serial_num = None THEN Returns(TRUE)
    ELSE IF "ID_SERIAL_SHORT" \notin DOMAIN device THEN Raises("KeyError")
    ELSE Returns(device["ID_SERIAL_SHORT"] = serial_num[1])

(***************************************************************************)
(* The environment: device nodes, their udev properties, notifications.    *)
(***************************************************************************)
Paths == {"/dev/ttyACM0", "/dev/ttyACM1"}

\* The order in which context.list_devices() yields the device nodes.
PathOrder == <<"/dev/ttyACM0", "/dev/ttyACM1">>

Teensyduino == Teensy \o <<"d", "u", "i", "n", "o">>

\* The udev properties the devices of the model may have.
Devices ==
    { [ID_VENDOR |-> Teensyduino, ID_SERIAL_SHORT |-> "12345"],
      [ID_VENDOR |-> Teensyduino],
      [ID_SERIAL_SHORT |-> "777"] }

Criterias == {None, Some("12345")}

\* What serial_port.read(256) may return.
Chunks == { <<>>, <<"D", ":", "o", "k", "\n">>, <<"x", "\n">> }

\* What sys.stdin.read(1) may return; the empty string is end of file.
Units == { <<"\n">>, <<"a">>, <<>> }

Sources == {"monitor", "serial", "stdin"}

NoPort == ""

\* The positions inside the try block of main (lines 216-245).
TryPcs == {"set_console", "start_monitor", "enumerate", "enum_loop", "wait",
           "tm_entry", "tm_open", "tm_poll", "tm_events"}

\* A notification reaches the monitor only once it is started, and only
\* while its receive buffer (MaxQueue) has room.
Notify(p, a) ==
    IF monitorStarted
    THEN /\ Len(queue) < MaxQueue
         /\ queue' = Append(queue, [device_node |-> p, action |-> a])
    ELSE queue' = queue

\* The environment is observed while main is inside its try block.
Running == pc \in TryPcs

Attach(p) ==
    /\ Running
    /\ ~attached[p]
    /\ attached' = [attached EXCEPT ![p] = TRUE]
    /\ Notify(p, "add")
    /\ UNCHANGED <<criteria, desc, permitted, monitorStarted, pc, caller,
                   enumList, port, serialOpen, linkLost, events, output, exc,
                   console, endReason, mIn, wIn,
                   hist>>

Detach(p) ==
    /\ Running
    /\ attached[p]
    /\ attached' = [attached EXCEPT ![p] = FALSE]
    /\ Notify(p, "remove")
    /\ linkLost' = (linkLost \/ (serialOpen /\ port = p))
    /\ hist' = IF hist.on THEN [hist EXCEPT !.consumed = @ \ {p}] ELSE hist
    /\ UNCHANGED <<criteria, desc, permitted, monitorStarted, pc, caller,
                   enumList, port, serialOpen, events, output, exc, console,
                   endReason, mIn, wIn>>

Change(p) ==
    /\ Running
    /\ attached[p]
    /\ monitorStarted
    /\ Notify(p, "change")
    /\ UNCHANGED <<criteria, desc, permitted, attached, monitorStarted, pc,
                   caller, enumList, port, serialOpen, linkLost, events,
                   output, exc, console, endReason, mIn, wIn,
                   hist>>

(***************************************************************************)
(* main (lines 214-251) and teensy_mon (lines 102-165).                    *)
(***************************************************************************)
fixed == <<criteria, desc, permitted, mIn, wIn>>
world == <<fixed, hist>>

\* The positions of the session loop, where the serial handle is in use.
SessionPcs == {"tm_poll", "tm_events"}

\* The start-up steps with the enumeration moved before monitor.start().
StartupOrder_EnumerateFirst == <<"enumerate", "start_monitor", "enum_loop">>

\* The order of the start-up steps of main after the console is set up:
\* monitor.start() (226-228), list_devices() (231), the loop over it (231-233).
StartupOrder == <<"start_monitor", "enumerate", "enum_loop">>

\* The position after start-up step l; the wait loop follows the last one.
AfterStartup(l) ==
    LET i == CHOOSE k \in 1..Len(StartupOrder) : StartupOrder[k] = l
    IN  IF i < Len(StartupOrder) THEN StartupOrder[i + 1] ELSE "wait"

\* An exception leaves the try block: the handlers of main are next.
Raise(e) ==
    /\ pc' = "except"
    /\ exc' = e

\* Lines 215-224: save the console settings, switch to unbuffered, no echo.
SetConsole ==
    /\ pc = "set_console"
    /\ console' = "raw"
    /\ pc' = StartupOrder[1]
    /\ UNCHANGED <<world, attached, monitorStarted, queue, caller, enumList,
                   port, serialOpen, linkLost, events, output, exc, endReason>>

\* Lines 226-228: monitor.start().
StartMonitor ==
    /\ pc = "start_monitor"
    /\ monitorStarted' = TRUE
    /\ pc' = AfterStartup("start_monitor")
    /\ UNCHANGED <<world, attached, queue, caller, enumList, port, serialOpen,
                   linkLost, events, output, exc, console, endReason>>

\* Line 231: context.list_devices(subsystem='tty'), the nodes attached now.
Enumerate ==
    /\ pc = "enumerate"
    /\ enumList' = SelectSeq(PathOrder, LAMBDA p : attached[p])
    /\ pc' = AfterStartup("enumerate")
    /\ UNCHANGED <<world, attached, monitorStarted, queue, caller, port,
                   serialOpen, linkLost, events, output, exc, console,
                   endReason>>

\* The call teensy_mon(monitor, device) from the loop at position from.
CallTeensyMon(p, from) ==
    /\ pc' = "tm_entry"
    /\ port' = p
    /\ caller' = from
    /\ exc' = exc

\* Lines 231-233: one iteration of the loop over the enumerated devices.
EnumLoop ==
    /\ pc = "enum_loop"
    /\ IF enumList = <<>>
       THEN /\ pc' = AfterStartup("enum_loop")
            /\ UNCHANGED <<enumList, port, caller, exc>>
       ELSE LET r == is_teensy(desc[Head(enumList)], criteria)
            IN  /\ enumList' = Tail(enumList)
                /\ IF r.raised # "none"
                   THEN Raise(r.raised) /\ UNCHANGED <<port, caller>>
                   ELSE IF r.value
                   THEN CallTeensyMon(Head(enumList), "enum_loop")
                   ELSE UNCHANGED <<pc, port, caller, exc>>
    /\ UNCHANGED <<world, attached, monitorStarted, queue, serialOpen,
                   linkLost, events, output, console, endReason>>

\* Lines 236-245: one notification polled by the wait loop.
Wait ==
    /\ pc = "wait"
    /\ queue # <<>>
    /\ queue' = Tail(queue)
    /\ LET device == Head(queue)
           r == is_teensy(desc[device.device_node], criteria)
       IN  IF device.action # "add"
           THEN UNCHANGED <<pc, port, caller, exc>>
           ELSE IF r.raised # "none"
           THEN Raise(r.raised) /\ UNCHANGED <<port, caller>>
           ELSE IF r.value
           THEN CallTeensyMon(device.device_node, "wait")
           ELSE UNCHANGED <<pc, port, caller, exc>>
    /\ UNCHANGED <<world, attached, monitorStarted, enumList, serialOpen,
                   linkLost, events, output, console, endReason>>

\* The variables a step of teensy_mon may change besides output and queue.
ctl == <<pc, port, serialOpen, linkLost, events, exc, endReason>>

\* return from teensy_mon: control is back in the loop that called it.
Return(why) ==
    /\ pc' = caller
    /\ port' = NoPort
    /\ endReason' = why
    /\ events' = <<>>
    /\ exc' = exc

\* An exception leaves teensy_mon: its locals, the serial handle among
\* them, are left as they are.
Propagate(e) ==
    /\ Raise(e)
    /\ endReason' = "exception"
    /\ UNCHANGED <<port, serialOpen, linkLost, events>>

\* Lines 113-119: the serial number for the banner, the epoll object, the
\* OutputWriter.
TeensyMonEntry ==
    /\ pc = "tm_entry"
    /\ IF "ID_SERIAL_SHORT" \notin DOMAIN desc[port]
       THEN Propagate("KeyError") /\ UNCHANGED output
       ELSE /\ pc' = "tm_open"
            /\ output' = OutputWriterInit
            /\ UNCHANGED <<port, serialOpen, linkLost, events, exc, endReason>>
    /\ UNCHANGED <<world, attached, monitorStarted, queue, caller, enumList,
                   console>>

\* serial.Serial(port=port_name, ...) succeeds: the node exists and the
\* user may open it.
CanOpen(p) == attached[p] /\ permitted

\* The handler of a failed open without its return: the loop is entered.
OpenFailed_NoReturn ==
    /\ pc' = "tm_poll"
    /\ UNCHANGED <<port, serialOpen, linkLost, events, exc, endReason>>

\* Lines 130-132: the handler of a failed open.
OpenFailed ==
    /\ Return("open_failure")
    /\ UNCHANGED <<serialOpen, linkLost>>

\* Lines 121-135: open the port and register it.
SerialOpen ==
    /\ pc = "tm_open"
    /\ IF CanOpen(port)
       THEN /\ serialOpen' = TRUE
            /\ linkLost' = FALSE
            /\ pc' = "tm_poll"
            /\ hist' = IF hist.on
                       THEN [hist EXCEPT !.polled = <<>>, !.serviced = <<>>,
                                         !.typed = <<>>, !.sent = <<>>]
                       ELSE hist
            /\ UNCHANGED <<port, events, exc, endReason>>
       ELSE OpenFailed /\ UNCHANGED hist
    /\ UNCHANGED <<fixed, attached, monitorStarted, queue, caller, enumList,
                   output, console>>

\* The orders in which epoll.poll() may report a non-empty set of sources.
ReadyLists(ready) ==
    { l \in UNION { [1..n -> ready] : n \in 1..Cardinality(ready) } :
        \A i, j \in DOMAIN l : i # j => l[i] # l[j] }

\* The history of the session after a step, where one is kept; the list
\* of a poll and what was serviced of it are kept while the loop runs.
Record(h) ==
    hist' = IF ~hist.on THEN hist
            ELSE IF pc' \in SessionPcs THEN h
            ELSE [h EXCEPT !.polled = <<>>, !.serviced = <<>>]

Serviced(source) == Record([hist EXCEPT !.serviced = Append(@, source)])

\* The monitor is not readable while no notification is queued.
Unread == IF queue = <<>> THEN {"monitor"} ELSE {}

\* A recorded session is followed for MaxTyped units of console input.
Untyped == IF Len(hist.typed) >= MaxTyped THEN {"stdin"} ELSE {}

\* Line 138: events = epoll.poll().  The monitor is readable when a
\* notification is queued; the serial port and the console may become
\* readable at any time.
EpollPoll ==
    /\ pc = "tm_poll"
    /\ pc' = "tm_events"
    /\ \E l \in ReadyLists(Sources \ (Unread \cup Untyped)) :
           /\ events' = l
           /\ Record([hist EXCEPT !.polled = l, !.serviced = <<>>])
    /\ UNCHANGED <<fixed, attached, monitorStarted, queue, caller, enumList,
                   port, serialOpen, linkLost, output, exc, console, endReason>>

\* The event just serviced is done: the next one, or the next epoll.poll().
NextEvent ==
    /\ events' = Tail(events)
    /\ pc' = IF Tail(events) = <<>> THEN "tm_poll" ELSE "tm_events"
    /\ UNCHANGED <<port, serialOpen, linkLost, exc, endReason>>

\* The test of lines 142-143 with 'and' for 'or'.
IsOwnRemove_And(dev, port_name) ==
    ~(dev.device_node # port_name /\ dev.action # "remove")

\* Lines 142-143 negated: the notification that ends the session.
IsOwnRemove(dev, port_name) ==
    ~(dev.device_node # port_name \/ dev.action # "remove")

\* Lines 145-147 and 152-154: close the port and return.
CloseAndReturn(why) ==
    /\ serialOpen' = FALSE
    /\ linkLost' = FALSE
    /\ Return(why)

\* The continue of line 144 leaving the for loop instead.
Ignore_Break ==
    /\ events' = <<>>
    /\ pc' = "tm_poll"
    /\ UNCHANGED <<port, serialOpen, linkLost, exc, endReason>>

\* Line 144: continue, to the next entry of events.
Ignore == NextEvent

\* Lines 140-147: the monitor is readable.
HandleMonitor ==
    /\ pc = "tm_events"
    /\ Head(events) = "monitor"
    /\ queue' = Tail(queue)
    /\ IF IsOwnRemove(Head(queue), port)
       THEN CloseAndReturn("remove")
       ELSE Ignore
    /\ Record([hist EXCEPT
                  !.serviced = Append(@, "monitor"),
                  !.consumed = IF Head(queue).action = "add"
                               THEN @ \cup {Head(queue).device_node}
                               ELSE @])
    /\ UNCHANGED <<fixed, attached, monitorStarted, caller, enumList, output,
                   console>>

\* The read of line 150 without its try: the exception leaves teensy_mon.
ReadFailed_Uncaught == Propagate("SerialException")

\* Lines 151-154: the handler of a failed read.
ReadFailed == CloseAndReturn("read_failure")

\* Lines 148-157: the serial port is readable.  The read fails when the
\* device behind the handle is gone.
HandleSerial ==
    /\ pc = "tm_events"
    /\ Head(events) = "serial"
    /\ IF linkLost
       THEN ReadFailed /\ UNCHANGED output
       ELSE /\ \E data \in Chunks : output' = Write(output, data).st
            /\ NextEvent
    /\ Serviced("serial")
    /\ UNCHANGED <<fixed, attached, monitorStarted, queue, caller, enumList,
                   console>>

\* Lines 162-165: serial_port.write raises when the device behind the
\* handle is gone; nothing in teensy_mon catches it.
WriteFailed == Propagate("SerialException")

\* Lines 162-165: what is handed to serial_port.write for the unit read.
Forward(data) == IF data[1] = "\n" THEN <<"\r">> ELSE data

\* Lines 158-165: the console is readable.  data[0] of the empty string
\* read at end of file raises IndexError.
HandleStdin ==
    /\ pc = "tm_events"
    /\ Head(events) = "stdin"
    /\ \E data \in Units :
           /\ IF data = <<>> THEN Propagate("IndexError")
              ELSE IF linkLost THEN WriteFailed
              ELSE NextEvent
           /\ Record([hist EXCEPT
                         !.serviced = Append(@, "stdin"),
                         !.typed = @ \o data,
                         !.sent = IF data = <<>> \/ linkLost THEN @
                                  ELSE @ \o Forward(data)])
    /\ UNCHANGED <<fixed, attached, monitorStarted, queue, caller, enumList,
                   output, console>>

\* Control-C while main is inside its try block.
Interrupt ==
    /\ pc \in TryPcs
    /\ Raise("KeyboardInterrupt")
    /\ UNCHANGED <<world, attached, monitorStarted, queue, caller, enumList,
                   port, serialOpen, linkLost, events, output, console,
                   endReason>>

\* main without the handler of lines 248-249: any exception but Control-C
\* ends the process before line 251.
Handlers_OnlyInterrupt ==
    /\ pc' = IF exc = "KeyboardInterrupt" THEN "restore" ELSE "exited"
    /\ UNCHANGED <<exc, console>>

\* Lines 246-249: both handlers of main fall through to line 251.
Handlers ==
    /\ pc' = "restore"
    /\ UNCHANGED <<exc, console>>

Handle ==
    /\ pc = "except"
    /\ Handlers
    /\ UNCHANGED <<world, attached, monitorStarted, queue, caller, enumList,
                   port, serialOpen, linkLost, events, output, endReason>>

\* Line 251: restore the saved console settings; main returns.
Restore ==
    /\ pc = "restore"
    /\ console' = "orig"
    /\ pc' = "exited"
    /\ UNCHANGED <<world, attached, monitorStarted, queue, caller, enumList,
                   port, serialOpen, linkLost, events, output, exc, endReason>>

NoMatcherInput == [device |-> <<>>, serial_num |-> None, result |-> <<>>]

\* Line 119: output = OutputWriter(), with nothing passed to it or written
\* by it yet; last is the chunk of the latest call of write.
WriterFresh ==
    [st |-> OutputWriterInit, emitted |-> <<>>, fed |-> <<>>, last |-> <<>>]

\* The record of one session: the list returned by the latest epoll.poll()
\* (line 138), the sources serviced since, the units read from the console
\* (line 159) and those serial_port.write accepted (lines 162-165).  It is
\* kept only while on is set, and then consumed is the set of the attached
\* nodes whose add notification was polled inside a session (line 141).
NoHistory ==
    [on |-> FALSE, polled |-> <<>>, serviced |-> <<>>, typed |-> <<>>,
     sent |-> <<>>, consumed |-> {}]

Init ==
    /\ criteria \in Criterias
    /\ desc \in [Paths -> Devices]
    /\ permitted \in BOOLEAN
    /\ attached \in [Paths -> BOOLEAN]
    /\ monitorStarted = FALSE
    /\ queue = <<>>
    /\ pc = "set_console"
    /\ caller = "enum_loop"
    /\ enumList = <<>>
    /\ port = NoPort
    /\ serialOpen = FALSE
    /\ linkLost = FALSE
    /\ events = <<>>
    /\ output = OutputWriterInit
    /\ exc = "none"
    /\ console = "orig"
    /\ endReason = "none"
    /\ mIn = NoMatcherInput
    /\ wIn = WriterFresh
    /\ hist = NoHistory

Environment == \E p \in Paths : Attach(p) \/ Detach(p) \/ Change(p)

Program ==
    \/ SetConsole
    \/ StartMonitor
    \/ Enumerate
    \/ EnumLoop
    \/ Wait
    \/ TeensyMonEntry
    \/ SerialOpen
    \/ EpollPoll
    \/ HandleMonitor
    \/ HandleSerial
    \/ HandleStdin
    \/ Handle
    \/ Restore

Next == Environment \/ Program \/ Interrupt

Spec == Init /\ [][Next]_vars

\* The scheduling of the program: it is one thread, which takes its next
\* step whenever one is possible (a poll with nothing to read blocks).
SpecLive == Spec /\ WF_vars(Program)

(***************************************************************************)
(* The matcher on its own: is_teensy applied to one device and one         *)
(* serial_num argument, drawn from MatchDevices and MatchSerials.          *)
(***************************************************************************)
MatchVendors ==
    { <<>>, <<"T", "e", "e", "n", "s">>, Teensy, Teensyduino,
      <<"t", "e", "e", "n", "s", "y">>, <<"X">> \o Teensy,
      <<"F", "T", "D", "I">> }

MatchSerialNumbers == {"12345", "777", ""}

MatchDevices ==
    { <<>> }
    \cup { [ID_VENDOR |-> v] : v \in MatchVendors }
    \cup { [ID_SERIAL_SHORT |-> n] : n \in MatchSerialNumbers }
    \cup { [ID_VENDOR |-> v, ID_SERIAL_SHORT |-> n] :
               v \in MatchVendors, n \in MatchSerialNumbers }

MatchSerials == {None} \cup { Some(n) : n \in MatchSerialNumbers }

InitMatch ==
    /\ mIn \in { [device |-> d, serial_num |-> n, result |-> <<>>] :
                     d \in MatchDevices, n \in MatchSerials }
    /\ wIn = WriterFresh
    /\ hist = NoHistory
    /\ criteria = None
    /\ desc = [p \in Paths |-> <<>>]
    /\ permitted = FALSE
    /\ attached = [p \in Paths |-> FALSE]
    /\ monitorStarted = FALSE
    /\ queue = <<>>
    /\ pc = "exited"
    /\ caller = "enum_loop"
    /\ enumList = <<>>
    /\ port = NoPort
    /\ serialOpen = FALSE
    /\ linkLost = FALSE
    /\ events = <<>>
    /\ output = OutputWriterInit
    /\ exc = "none"
    /\ console = "orig"
    /\ endReason = "none"

\* The call is_teensy(device, serial_num) and its outcome.
MatchApply ==
    /\ mIn.result = <<>>
    /\ mIn' = [mIn EXCEPT !.result = <<is_teensy(mIn.device, mIn.serial_num)>>]
    /\ UNCHANGED <<criteria, desc, permitted, attached, monitorStarted, queue,
                   pc, caller, enumList, port, serialOpen, linkLost, events,
                   output, exc, console, endReason, wIn, hist>>

NextMatch == MatchApply

SpecMatch == InitMatch /\ [][NextMatch]_vars

(***************************************************************************)
(* The writer specification: one OutputWriter (lines 41-84) is handed      *)
(* arbitrary chunks, as teensy_mon hands it whatever each serial read      *)
(* returned (line 157), and is replaced by a new one when a session starts *)
(* (line 119).  fed is the concatenation of the chunks passed so far and   *)
(* emitted the concatenation of what write handed to sys.stdout.           *)
(***************************************************************************)
MaxFed == 5
MaxChunk == 2

\* Two keys of COLORS (one with a colour, one with the empty one), the
\* colon, a byte that is no key, and the newline.
WriterBytes == {"W", "I", ":", "x", "\n"}

SeqsUpTo(S, n) == UNION { [1..k -> S] : k \in 0..n }

WriterChunks == SeqsUpTo(WriterBytes, MaxChunk)

Hello == <<"I", ":", " ", "h", "e", "l", "l", "o", "\n">>
Oops == <<"E", ":", " ", "o", "o", "p", "s", "\n">>

\* Whole tagged lines a device prints, each arriving in one read.
WriterLines == { Hello, Oops, <<"D", ":", "o", "k", "\n">> }

\* Line 157: output.write(data).
WriterWrite ==
    /\ \E chunk \in WriterChunks \cup WriterLines :
        /\ \/ Len(wIn.fed) + Len(chunk) <= MaxFed
           \/ wIn = WriterFresh /\ chunk \in WriterLines
        /\ LET r == Write(wIn.st, chunk)
           IN  wIn' = [st |-> r.st, emitted |-> wIn.emitted \o r.out,
                       fed |-> wIn.fed \o chunk, last |-> chunk]
    /\ UNCHANGED <<criteria, desc, permitted, attached, monitorStarted, queue,
                   pc, caller, enumList, port, serialOpen, linkLost, events,
                   output, exc, console, endReason, mIn, hist>>

\* Line 119: the next session constructs its own OutputWriter.
WriterNew ==
    /\ wIn # WriterFresh
    /\ wIn' = WriterFresh
    /\ UNCHANGED <<criteria, desc, permitted, attached, monitorStarted, queue,
                   pc, caller, enumList, port, serialOpen, linkLost, events,
                   output, exc, console, endReason, mIn, hist>>

InitWriter ==
    /\ wIn = WriterFresh
    /\ hist = NoHistory
    /\ mIn = NoMatcherInput
    /\ criteria = None
    /\ desc = [p \in Paths |-> <<>>]
    /\ permitted = FALSE
    /\ attached = [p \in Paths |-> FALSE]
    /\ monitorStarted = FALSE
    /\ queue = <<>>
    /\ pc = "exited"
    /\ caller = "enum_loop"
    /\ enumList = <<>>
    /\ port = NoPort
    /\ serialOpen = FALSE
    /\ linkLost = FALSE
    /\ events = <<>>
    /\ output = OutputWriterInit
    /\ exc = "none"
    /\ console = "orig"
    /\ endReason = "none"

NextWriter == WriterWrite \/ WriterNew

SpecWriter == InitWriter /\ [][NextWriter]_vars

(***************************************************************************)
(* The session specification: main from the first epoll.poll() (line 138)  *)
(* of a session on the first port, with the history kept.  The session was *)
(* started by the enumeration loop (line 233), with the second port        *)
(* attached and still to come in the list or not attached, or by the wait  *)
(* loop (line 243) with nothing else attached.  The steps are those of the *)
(* two loops of main and of teensy_mon; what main does with an exception   *)
(* (lines 246-251) is in Spec.                                             *)
(***************************************************************************)
InitSession ==
    /\ hist = [NoHistory EXCEPT !.on = TRUE]
    /\ wIn = WriterFresh
    /\ mIn = NoMatcherInput
    /\ criteria = None
    /\ desc = [p \in Paths |->
                 [ID_VENDOR |-> Teensyduino, ID_SERIAL_SHORT |-> "12345"]]
    /\ permitted = TRUE
    /\ attached \in { a \in [Paths -> BOOLEAN] : a[PathOrder[1]] }
    /\ monitorStarted = TRUE
    /\ queue = <<>>
    /\ pc = "tm_poll"
    /\ caller \in {"enum_loop", "wait"}
    /\ enumList = IF caller = "enum_loop" /\ attached[PathOrder[2]]
                  THEN <<PathOrder[2]>> ELSE <<>>
    /\ caller = "wait" => ~attached[PathOrder[2]]
    /\ port = PathOrder[1]
    /\ serialOpen = TRUE
    /\ linkLost = FALSE
    /\ events = <<>>
    /\ output = OutputWriterInit
    /\ exc = "none"
    /\ console = "raw"
    /\ endReason = "none"

NextSession ==
    \/ Environment
    \/ EnumLoop
    \/ Wait
    \/ TeensyMonEntry
    \/ SerialOpen
    \/ EpollPoll
    \/ HandleMonitor
    \/ HandleSerial
    \/ HandleStdin

SpecSession == InitSession /\ [][NextSession]_vars

(***************************************************************************)
(* Properties.                                                             *)
(***************************************************************************)
\* The positions of main outside teensy_mon: the Controller.
ControllerPcs == {"set_console", "start_monitor", "enumerate", "enum_loop",
                  "wait", "except", "restore", "exited"}

\* The two loops of main that call teensy_mon.
LoopPcs == {"enum_loop", "wait"}

\* main has left its try block.
Leaving == pc \in {"except", "restore", "exited"}

\* C1: in an active session a hotplug notification ends the session exactly
\* when its device path is the session's port and its action is 'remove';
\* every other notification leaves the session active with the serial handle
\* open.
C1_HotplugEndsSessionIffOwnRemove ==
    [][ (/\ pc = "tm_events"
         /\ Head(events) = "monitor"
         /\ queue # <<>>
         /\ queue' = Tail(queue))
        => LET dev == Head(queue)
           IN  IF dev.device_node = port /\ dev.action = "remove"
               THEN /\ pc' = caller
                    /\ ~serialOpen'
                    /\ port' = NoPort
               ELSE /\ pc' \in SessionPcs
                    /\ serialOpen'
                    /\ port' = port
                    /\ exc' = "none" ]_vars

\* C1 witness: a session was ended by the remove notification of its own
\* port, after which the wait loop goes on; the other device is attached.
C1_Witness ==
    /\ endReason = "remove"
    /\ pc = "wait"
    /\ ~serialOpen
    /\ \E p \in Paths : attached[p]

C3_WriteFailureContained == ~(Leaving /\ exc = "SerialException")

\* C4: the Controller never runs while a serial handle opened by a session
\* that ended (other than by Control-C) is still open.
C4_ClosedBeforeController ==
    (pc \in ControllerPcs /\ exc # "KeyboardInterrupt") => ~serialOpen

\* C5: once a session has ended by a remove notification or by a read
\* failure, the next call of teensy_mon is made from the wait loop only,
\* that is for a newly polled add notification.
C5_NextSessionOnlyFromWait ==
    [][ (/\ pc' = "tm_entry"
         /\ pc # "tm_entry"
         /\ endReason \in {"remove", "read_failure"})
        => pc = "wait" ]_vars

\* The device at p is a Teensy with a serial number that the serial_num
\* argument admits and whose port can be opened.
Good(p) ==
    /\ "ID_VENDOR" \in DOMAIN desc[p]
    /\ desc[p]["ID_VENDOR"] = Teensyduino
    /\ "ID_SERIAL_SHORT" \in DOMAIN desc[p]
    /\ criteria \in {None, Some(desc[p]["ID_SERIAL_SHORT"])}
    /\ permitted

\* The device at p is not a Teensy.
Foreign(p) == "ID_VENDOR" \notin DOMAIN desc[p]

VendorQualifies(device) ==
    /\ "ID_VENDOR" \in DOMAIN device
    /\ Len(device["ID_VENDOR"]) >= 6
    /\ \A i \in 1..6 : device["ID_VENDOR"][i] = Teensy[i]

\* C9: is_teensy is false for every device whose vendor tag is absent or
\* does not begin with 'Teensy'; true for a qualifying vendor and no
\* serial_num; and with a serial_num it is true exactly when the vendor
\* qualifies and the device's serial number equals it.
C9_MatcherContract ==
    mIn.result # <<>> =>
        LET device == mIn.device
            serial_num == mIn.serial_num
            r == mIn.result[1]
        IN  /\ ~VendorQualifies(device) => r = Returns(FALSE)
            /\ (VendorQualifies(device) /\ serial_num = None)
                   => r = Returns(TRUE)
            /\ serial_num # None =>
                   (r = Returns(TRUE)
                    <=> /\ VendorQualifies(device)
                        /\ "ID_SERIAL_SHORT" \in DOMAIN device
                        /\ device["ID_SERIAL_SHORT"] = serial_num[1])

\* C9 witness: a qualifying vendor with a serial number other than the one
\* asked for has been rejected.
C9_Witness ==
    /\ mIn.result = <<Returns(FALSE)>>
    /\ VendorQualifies(mIn.device)
    /\ mIn.serial_num # None
    /\ "ID_SERIAL_SHORT" \in DOMAIN mIn.device

\* C10: a device with a qualifying vendor tag and no serial number never
\* raises a failure that ends the loops of main.
C10_AbsentSerialNoFailure == ~(Leaving /\ exc = "KeyError")


(***************************************************************************)
(* Properties of OutputWriter, checked under SpecWriter.                   *)
(***************************************************************************)

\* C11: however the bytes were split into calls of write, what the writer
\* has emitted and the state it is left in are those of a fresh writer given
\* the same bytes in one call.
C11_ChunkingIndependent ==
    [st |-> wIn.st, out |-> wIn.emitted] = Write(OutputWriterInit, wIn.fed)

\* A tag whose key and colon arrived in two separate calls was coloured.
C11_Witness ==
    /\ wIn.fed = <<"W", ":">>
    /\ wIn.last = <<":">>
    /\ wIn.emitted = LT_YELLOW \o <<"W", ":">>


\* The escape sequences the writer inserts (lines 24-30), one unit each.
Escapes == { LT_RED[1], LT_YELLOW[1], LT_BLUE[1], NO_COLOR[1] }

NotEscape(u) == u \notin Escapes

\* What reached sys.stdout with the inserted escape sequences removed.
Strip(units) == SelectSeq(units, NotEscape)

\* C12 as stated: the bytes passed to write are exactly the bytes emitted,
\* escape sequences removed.
C12_EmittedIsFed == Strip(wIn.emitted) = wIn.fed

\* C12: no byte is dropped, duplicated or reordered: the bytes passed to
\* write are the bytes emitted, escape sequences removed, followed by the
\* byte still kept in buffered_output, if any.
C12_EmittedPlusPendingIsFed ==
    Strip(wIn.emitted) \o wIn.st.buffered_output = wIn.fed

\* A byte was kept, released by the next call, and another one is kept.
C12_Witness ==
    /\ wIn.fed = <<"x", "\n", "W">>
    /\ wIn.last = <<"\n", "W">>
    /\ wIn.st.buffered_output = <<"W">>
    /\ wIn.emitted = <<"x", "\n">>


RECURSIVE Lines(_)
\* The lines of a byte sequence, each through its newline; bytes after the
\* last newline form a last, unfinished line.
Lines(s) ==
    IF s = <<>> THEN <<>>
    ELSE LET n == Find(s)
         IN  IF n < 0 THEN <<s>>
             ELSE <<SubSeq(s, 1, n + 1)>> \o Lines(SubSeq(s, n + 2, Len(s)))

RECURSIVE OutLines(_)
\* The same division of what was emitted; a reset escape right after a
\* newline belongs to the line that newline ends.
OutLines(e) ==
    IF e = <<>> THEN <<>>
    ELSE LET n == Find(e)
             end == IF n + 2 <= Len(e) /\ e[n + 2] = NO_COLOR[1]
                    THEN n + 2 ELSE n + 1
         IN  IF n < 0 THEN <<e>>
             ELSE <<SubSeq(e, 1, end)>> \o OutLines(SubSeq(e, end + 1, Len(e)))

Finished(line) == line[Len(line)] = "\n"

\* The line starts with a key of COLORS and a colon.
LineTagged(line) ==
    Len(line) >= 2 /\ line[2] = ":" /\ line[1] \in DOMAIN COLORS

\* C13: every finished line that starts with a key of COLORS and a colon is
\* emitted as the key's escape sequence, the line unchanged through its
\* newline, and the reset escape; nothing else, so the prefix appears once.
C13_TaggedLineColoured ==
    LET in == Lines(wIn.fed)
        out == OutLines(wIn.emitted)
    IN  \A i \in 1..Len(in) :
            LineTagged(in[i]) /\ Finished(in[i]) =>
                /\ i <= Len(out)
                /\ out[i] = COLORS[in[i][1]] \o in[i] \o NO_COLOR

\* 'E: oops\n' was emitted between LT_RED and NO_COLOR.
C13_Witness ==
    /\ wIn.fed = Oops
    /\ wIn.emitted = LT_RED \o Oops \o NO_COLOR


\* C14: every finished line that does not start with a key of COLORS and a
\* colon is emitted byte for byte, with no escape sequence before, inside or
\* after it, whatever lines came before it.
C14_UntaggedLineUntouched ==
    LET in == Lines(wIn.fed)
        out == OutLines(wIn.emitted)
    IN  \A i \in 1..Len(in) :
            ~LineTagged(in[i]) /\ Finished(in[i]) =>
                /\ i <= Len(out)
                /\ out[i] = in[i]

\* C15: 'I: hello\n' passed in one call to a fresh writer is emitted as
\* exactly 'I: hello\n', with no escape sequence.
C15_InfoLineUnchanged ==
    (wIn.fed = Hello /\ wIn.last = Hello) => wIn.emitted = Hello


\* C16: after every call of write, buffered_output holds at most one byte,
\* no newline, and is non-empty only at column 0; and column is 0 exactly
\* when no byte has been emitted since the last emitted newline or since
\* the writer was created.
C16_WriterInvariant ==
    LET buffered == wIn.st.buffered_output
        bytes == Strip(wIn.emitted)
    IN  /\ Len(buffered) <= 1
        /\ \A i \in 1..Len(buffered) : buffered[i] # "\n"
        /\ buffered # <<>> => wIn.st.column = 0
        /\ wIn.st.column = 0 <=> (bytes = <<>> \/ bytes[Len(bytes)] = "\n")

\* A byte is held back at the start of the second line.
C16_Witness ==
    /\ wIn.fed = <<"W", ":", "\n", "I">>
    /\ wIn.st.buffered_output = <<"I">>
    /\ wIn.st.column = 0
    /\ wIn.emitted = LT_YELLOW \o <<"W", ":", "\n">> \o NO_COLOR

\* Some line up to the i-th one started with a key of COLORS and a colon.
TaggedBy(lines, i) == \E j \in 1..i : j <= Len(lines) /\ LineTagged(lines[j])

\* C17: colored is false until the first tagged line is recognised and true
\* from then on; every emitted line ended by a newline is followed by the
\* reset escape exactly when a tagged line was recognised up to it, whether
\* or not the line itself is tagged; only a new writer clears the flag, and
\* a new writer has no buffered byte, column 0 and the flag clear.
C17_ColoredSticky ==
    /\ [](LET lines == Lines(Strip(wIn.emitted))
              out == OutLines(wIn.emitted)
          IN  /\ wIn.st.colored <=> TaggedBy(lines, Len(lines))
              /\ \A i \in 1..Len(out) :
                    Find(out[i]) >= 0 =>
                        (out[i][Len(out[i])] = NO_COLOR[1] <=> TaggedBy(lines, i)))
    /\ [][/\ wIn.st.colored /\ ~wIn'.st.colored => wIn'.fed = <<>>
          /\ wIn.fed # <<>> /\ wIn'.fed = <<>> =>
                wIn'.st = [buffered_output |-> <<>>, column |-> 0,
                           colored |-> FALSE]]_vars

\* An untagged line after a tagged one was followed by the reset escape.
C17_Witness ==
    /\ wIn.fed = <<"W", ":", "\n", "x", "\n">>
    /\ wIn.st.colored
    /\ wIn.emitted = LT_YELLOW \o <<"W", ":", "\n">> \o NO_COLOR
                         \o <<"x", "\n">> \o NO_COLOR


(***************************************************************************)
(* Properties of the session loop, checked under SpecSession.              *)
(***************************************************************************)

\* C18: while the session lasts, the sources serviced since the latest
\* epoll.poll() followed by the entries still to be serviced are the list
\* that poll returned, which names each source at most once; so when the
\* loop is back at epoll.poll() every source of the list has been serviced
\* exactly once, also after a notification that was ignored.
C18_AllReadyServiced ==
    /\ pc = "tm_events" => hist.serviced \o events = hist.polled
    /\ pc = "tm_poll" => hist.serviced = hist.polled
    /\ \A i, j \in 1..Len(hist.polled) :
            i # j => hist.polled[i] # hist.polled[j]

\* A notification was ignored first, then the serial port and the console
\* were serviced, and the loop is back at epoll.poll().
C18_Witness ==
    /\ pc = "tm_poll"
    /\ hist.polled = <<"monitor", "serial", "stdin">>
    /\ hist.serviced = hist.polled
    /\ hist.typed # <<>>


\* The units with every line feed replaced by a carriage return.
LfToCr(units) ==
    [i \in 1..Len(units) |-> IF units[i] = "\n" THEN "\r" ELSE units[i]]

\* C19: every time the console is serviced one unit is read and one unit is
\* written to the serial port, and the OutputWriter is left as it was; at
\* every point of a session the units written are the units read, in order,
\* with a carriage return for every line feed.
C19_ConsoleForwarded ==
    /\ [](hist.sent = LfToCr(hist.typed))
    /\ [][(/\ pc = "tm_events"
           /\ Head(events) = "stdin"
           /\ pc' # pc \/ events' # events)
          => /\ Len(hist'.typed) = Len(hist.typed) + 1
             /\ Len(hist'.sent) = Len(hist.sent) + 1
             /\ output' = output]_vars


\* C20: a session is entered only with no serial handle open; a notification
\* polled inside a session stays with that session, which goes on or ends
\* but starts nothing; and for a node that is still attached and whose add
\* notification a session polled, teensy_mon is next called only by the
\* wait loop, that is for a new add notification.
C20_SessionConsumesHotplug ==
    /\ [](pc \in {"tm_entry", "tm_open"} => ~serialOpen)
    /\ [][(/\ pc = "tm_events"
           /\ Head(events) = "monitor"
           /\ queue' # queue
           /\ pc' # pc \/ events' # events)
          => /\ queue' = Tail(queue)
             /\ pc' \in SessionPcs \cup {caller}]_vars
    /\ [][(/\ pc' = "tm_entry"
           /\ pc # "tm_entry"
           /\ port' \in hist.consumed)
          => pc = "wait"]_vars

=============================================================================
